---------------------------- MODULE Spec2Model ----------------------------
(***************************************************************************)
(* tools/split_dataset.py: split_dataset_stratified as a state machine.    *)
(*                                                                         *)
(* One run of the function is a sequence of steps (pc): the ratio check,   *)
(* the directory checks, the label loop, the image loop, the grouping      *)
(* loop, one allocation step per group, the three final shuffles and one   *)
(* materialization step per split.  SpecRerun adds a second call with the  *)
(* same arguments, to compare the two results.  tools/find_duplicates.py   *)
(* is a second program, with its own state fd and specification SpecDup.   *)
(*                                                                         *)
(* Ratios are floats in the source.  They are modelled as integer          *)
(* numerators over RatioDen = 1024: such floats, their sums and their      *)
(* products with small integers are exact in binary floating point, so     *)
(* the comparisons of line 23 and the int() of lines 90-91 are exact here. *)
(*                                                                         *)
(* random (a Mersenne Twister) is modelled by a 16-bit linear congruential *)
(* generator: what the model keeps of it is that every shuffle is a        *)
(* function of the seed and of the draws consumed before it.               *)
(***************************************************************************)
EXTENDS Integers, Sequences, FiniteSets, TLC

VARIABLES
    dataset,           \* the source directory as given (input, never changed)
    ratios,            \* (train, val, test) numerators over RatioDen (input)
    seed,              \* input
    copy_files,        \* input
    pc,                \* position in split_dataset_stratified
    rng,               \* state of the module-level random generator
    fs,                \* the file system: source images/labels, destination
    log,               \* kinds of messages printed so far
    image_to_classes,  \* insertion-ordered dict: Seq of [stem, classes]
    all_image_stems,   \* set of stems
    groups,            \* insertion-ordered dict: Seq of [key, stems]
    gi,                \* groups already visited by the loop of line 81
    train_files, val_files, test_files,
    si,                \* splits already visited by the loop of line 127
    prev,              \* result of the previous run on the same input
    fd                 \* find_duplicates.py: arguments, directory, position

vars == <<dataset, ratios, seed, copy_files, pc, rng, fs, log,
          image_to_classes, all_image_stems, groups, gi,
          train_files, val_files, test_files, si, prev, fd>>

-----------------------------------------------------------------------------
(* Bounds *)

NumStems == 4

\* files in the directory find_duplicates.py scans
NumFiles == 3

StemNames == <<"a", "b", "c", "d", "e", "f", "g">>

\* Stem names of which the first, followed by a dot, starts the second:
\* the files a.jpg and a.b.jpg have the stems a and a.b.
DotStemNames == <<"a", "a.b", "c", "d", "e", "f", "g">>

DotPrefixes == {<<"a", "a.b">>}

(* Program constants *)

RatioDen == 1024
TolLow == 999
TolHigh == 1001
TolDen == 1000
MinGroup == 3
DefaultSeed == 42

Seeds == {DefaultSeed, 7}

ImageSuffixes == {"jpg", "jpeg", "png"}

SplitNames == <<"train", "val", "test">>

-----------------------------------------------------------------------------
(* Generic helpers *)

Range(s) == {s[i] : i \in 1..Len(s)}

\* The sequences that list every element of S once.
RECURSIVE Perms(_)
Perms(S) ==
    IF S = {} THEN {<<>>}
    ELSE UNION {{<<x>> \o p : p \in Perms(S \ {x})} : x \in S}

RECURSIVE AnyOrder(_)
AnyOrder(S) ==
    IF S = {} THEN <<>>
    ELSE LET x == CHOOSE y \in S : TRUE IN <<x>> \o AnyOrder(S \ {x})

RECURSIVE SumSeq(_)
SumSeq(s) == IF s = <<>> THEN 0 ELSE s[1] + SumSeq(Tail(s))

\* Python int() of the float a/b (b > 0): truncation toward zero.
PyInt(a, b) == IF a >= 0 THEN a \div b ELSE -((-a) \div b)

\* Python slice index normalisation for a list of length n.
SliceIndex(i, n) ==
    IF i < 0 THEN (IF i + n < 0 THEN 0 ELSE i + n)
             ELSE (IF i > n THEN n ELSE i)

\* x[lo:hi]
PySlice(x, lo, hi) ==
    LET a == SliceIndex(lo, Len(x))
        b == SliceIndex(hi, Len(x))
    IN  IF a >= b THEN <<>> ELSE SubSeq(x, a + 1, b)

\* x[:hi]
PySliceTo(x, hi) == PySlice(x, 0, hi)

\* x[lo:]
PySliceFrom(x, lo) == PySlice(x, lo, Len(x))

-----------------------------------------------------------------------------
(* random *)

\* random.seed(seed)
SeedRng(s) == s % 65536

NextRand(r) == (25173 * r + 13849) % 65536

\* _randbelow(k) on the generator state after one draw
RandBelow(r, k) == (r \div 256) % k

Swap(x, i, j) == [x EXCEPT ![i] = x[j], ![j] = x[i]]

\* random.shuffle: for i in reversed(range(1, len(x))): j = randbelow(i + 1);
\* x[i], x[j] = x[j], x[i].  Returns the list and the generator state.
RECURSIVE ShuffleFrom(_, _, _)
ShuffleFrom(x, r, i) ==
    IF i < 2 THEN [list |-> x, rng |-> r]
    ELSE LET r1 == NextRand(r)
             j  == RandBelow(r1, i) + 1
         IN  ShuffleFrom(Swap(x, i, j), r1, i - 1)

Shuffle(x, r) == ShuffleFrom(x, r, Len(x))

-----------------------------------------------------------------------------
(* The source directory *)

\* An image file is [stem, ext]; a label file <stem>.txt is a sequence of
\* lines, a line the sequence of its whitespace-separated tokens.
ImageFile(s, e) == [stem |-> s, ext |-> e]

ClassTokens == <<"0", "1">>

LabelLines(tok) == <<tok, "0.5", "0.5", "0.2", "0.2">>

\* What a stem is in a generated dataset.
Kinds == <<"c0", "c1", "bg", "orphan">>

\* Kinds with label files that hold malformed lines, repeated class ids and
\* class ids in another order.
LabelKinds == <<"c0", "bad_c0", "c0_blank_c1", "c1_c0_c0", "blank", "bg">>

\* Kinds whose image or label file cannot be copied or moved.
FailKinds == <<"c0", "c0_imgfail", "c0_lblfail", "bg", "bg_imgfail">>

\* Kinds with two image files of one stem.
FileKinds == <<"c0", "c0_two_ext", "bg">>

KindHasImage(k) == k # "orphan"

KindHasLabel(k) == k \notin {"bg", "bg_imgfail"}

\* the suffixes of the image files of a stem
KindExts(k) == IF k = "c0_two_ext" THEN {"jpg", "png"} ELSE {"jpg"}

KindFailsImage(k) == k \in {"c0_imgfail", "bg_imgfail"}

KindFailsLabel(k) == k = "c0_lblfail"

\* a line whose first token int() rejects, and a line that is empty after strip()
BadLine == <<"x", "0.5", "0.5", "0.2", "0.2">>

BlankLine == <<>>

KindLabel(k) ==
    CASE k = "c0"          -> <<LabelLines("0")>>
      [] k = "c1"          -> <<LabelLines("1")>>
      [] k = "bad_c0"      -> <<BadLine, LabelLines("0")>>
      [] k = "c0_blank_c1" -> <<LabelLines("0"), BlankLine, LabelLines("1")>>
      [] k = "c1_c0_c0"    -> <<LabelLines("1"), LabelLines("0"), LabelLines("0")>>
      [] k = "blank"       -> <<BlankLine, BadLine>>
      [] OTHER             -> <<LabelLines("0")>>

KindAssignmentsOf(kinds) ==
    {f \in [1..NumStems -> 1..Len(kinds)] :
        \A i, j \in 1..NumStems : i < j => f[i] <= f[j]}

KindAssignments == KindAssignmentsOf(Kinds)

DatasetOfKinds(kinds, names, f, hasLabels) ==
    LET withImage == {i \in 1..NumStems : KindHasImage(kinds[f[i]])}
        withLabel == {i \in 1..NumStems : hasLabels /\ KindHasLabel(kinds[f[i]])}
    IN  [has_images |-> TRUE,
         has_labels |-> hasLabels,
         images |-> UNION {{ImageFile(names[i], e) : e \in KindExts(kinds[f[i]])} :
                              i \in withImage},
         labels |-> [s \in {names[i] : i \in withLabel} |->
                        KindLabel(kinds[f[CHOOSE i \in withLabel : names[i] = s]])],
         fail_images |-> UNION {{ImageFile(names[i], e) : e \in KindExts(kinds[f[i]])} :
                                   i \in {j \in withImage : KindFailsImage(kinds[f[j]])}},
         fail_labels |-> {names[i] : i \in {j \in withLabel : KindFailsLabel(kinds[f[j]])}}]

DatasetOf(f, hasLabels) == DatasetOfKinds(Kinds, StemNames, f, hasLabels)

NoImagesDir ==
    [has_images |-> FALSE, has_labels |-> TRUE, images |-> {},
     labels |-> [s \in {StemNames[1]} |-> KindLabel("c0")],
     fail_images |-> {}, fail_labels |-> {}]

\* a source directory with images and no labels directory
NoLabelsDir == DatasetOf([i \in 1..NumStems |-> 3], FALSE)

Datasets ==
    {DatasetOf(f, TRUE) : f \in KindAssignments}
    \cup {NoLabelsDir}
    \cup {NoImagesDir}

LabelDatasets ==
    {DatasetOfKinds(LabelKinds, StemNames, f, TRUE) : f \in KindAssignmentsOf(LabelKinds)}
    \cup {NoLabelsDir, NoImagesDir}

FailDatasets ==
    {DatasetOfKinds(FailKinds, StemNames, f, TRUE) : f \in KindAssignmentsOf(FailKinds)}
    \cup {NoLabelsDir, NoImagesDir}

\* at most one stem has two image files
FileDatasets ==
    {DatasetOfKinds(FileKinds, DotStemNames, f, TRUE) :
        f \in {g \in KindAssignmentsOf(FileKinds) :
                  \A i, j \in 1..NumStems :
                      (FileKinds[g[i]] = "c0_two_ext" /\ FileKinds[g[j]] = "c0_two_ext")
                          => i = j}}
    \cup {NoLabelsDir, NoImagesDir}

\* (train, val, test) numerators over RatioDen.
RatioTriples ==
    { <<768, 128, 128>>,      \* 0.75 0.125 0.125
      <<1024, 1, 0>>,         \* sum 1025/1024, inside the tolerance
      <<512, -512, 1024>>,    \* a negative component, sum 1
      <<1536, 256, -768>>,    \* a negative component, sum 1
      <<-307, 102, 1229>>,    \* a negative component, sum 1
      <<512, 256, 128>>,      \* sum 0.875
      <<1024, 2, 0>> }        \* sum 1026/1024, outside the tolerance

-----------------------------------------------------------------------------
(* Lines 23-24: the ratio check *)

\* a check that forgets the lower end of the tolerance
RatiosAcceptedUpperOnly(r) == TolDen * SumSeq(r) < TolHigh * RatioDen

RatiosAccepted(r) ==
    /\ TolLow * RatioDen < TolDen * SumSeq(r)
    /\ TolDen * SumSeq(r) < TolHigh * RatioDen

-----------------------------------------------------------------------------
(* Lines 53-60: the label loop *)

\* int(token): defined on the integer literals only.
IsIntLiteral(tok) == \E i \in 1..Len(ClassTokens) : ClassTokens[i] = tok

IntOf(tok) == (CHOOSE i \in 1..Len(ClassTokens) : ClassTokens[i] = tok) - 1

\* int(line.strip().split()[0]) succeeds
LineParses(line) == line # <<>> /\ IsIntLiteral(line[1])

\* a loop over the lines that ends at the first line that fails to parse
ClassesOfStopAtBad(lines) ==
    {IntOf(lines[i][1]) : i \in {k \in 1..Len(lines) :
                                    \A j \in 1..k : LineParses(lines[j])}}

\* the class ids a label file adds to image_to_classes[stem]
ClassesOf(lines) ==
    {IntOf(lines[i][1]) : i \in {k \in 1..Len(lines) : LineParses(lines[k])}}

BadLines(lines) == {k \in 1..Len(lines) : ~LineParses(lines[k])}

DictKeys(d) == {d[i].stem : i \in 1..Len(d)}

\* The defaultdict gets the key at the first line that parses: a label file
\* with no such line adds no key.
RECURSIVE ReadLabelFiles(_, _, _)
ReadLabelFiles(order, labels, d) ==
    IF order = <<>> THEN d
    ELSE LET s  == Head(order)
             cs == ClassesOf(labels[s])
         IN  ReadLabelFiles(Tail(order), labels,
                 IF cs = {} THEN d
                 ELSE Append(d, [stem |-> s, classes |-> cs]))

-----------------------------------------------------------------------------
(* Lines 63-66: the image loop *)

AllImageStems(images) == {f.stem : f \in {g \in images : g.ext \in ImageSuffixes}}

RECURSIVE AddBackground(_, _)
AddBackground(order, d) ==
    IF order = <<>> THEN d
    ELSE AddBackground(Tail(order),
             IF Head(order) \in DictKeys(d) THEN d
             ELSE Append(d, [stem |-> Head(order), classes |-> {}]))

-----------------------------------------------------------------------------
(* Lines 69-73: grouping *)

\* a lookup that sees the most recent group only
GroupIndexLast(g, key) ==
    IF g # <<>> /\ g[Len(g)].key = key THEN Len(g) ELSE 0

GroupIndex(g, key) ==
    IF \E i \in 1..Len(g) : g[i].key = key
    THEN CHOOSE i \in 1..Len(g) : g[i].key = key
    ELSE 0

RECURSIVE GroupBy(_, _)
GroupBy(d, g) ==
    IF d = <<>> THEN g
    ELSE LET e == Head(d)
             i == GroupIndex(g, e.classes)
         IN  GroupBy(Tail(d),
                 IF i = 0
                 THEN Append(g, [key |-> e.classes, stems |-> <<e.stem>>])
                 ELSE [g EXCEPT ![i].stems = Append(@, e.stem)])

-----------------------------------------------------------------------------
(* Lines 83-105: the allocation of one group *)

\* an off-by-one small-group test
SmallGroupBelowTwo(n) == n < MinGroup - 1

SmallGroup(n) == n < MinGroup

NTrain0(n, r) == PyInt(n * r[1], RatioDen)

NVal0(n, r) == PyInt(n * r[2], RatioDen)

\* a minimum-validation rule that wants two spare stems
MinValFiresTwoSpare(n, r) == r[2] > 0 /\ NVal0(n, r) = 0 /\ n > NTrain0(n, r) + 1

\* lines 94-95
MinValFires(n, r) == r[2] > 0 /\ NVal0(n, r) = 0 /\ n > NTrain0(n, r)

NVal(n, r) == IF MinValFires(n, r) THEN 1 ELSE NVal0(n, r)

\* line 98
NTest0(n, r) == n - NTrain0(n, r) - NVal(n, r)

\* lines 99-101
NTrain(n, r) == IF NTest0(n, r) < 0 THEN NTrain0(n, r) + NTest0(n, r) ELSE NTrain0(n, r)

NTest(n, r) == IF NTest0(n, r) < 0 THEN 0 ELSE NTest0(n, r)

\* what the group adds to train_files, val_files, test_files (lines 87, 103-105)
TrainPart(x, r) ==
    IF SmallGroup(Len(x)) THEN x ELSE PySliceTo(x, NTrain(Len(x), r))

ValPart(x, r) ==
    IF SmallGroup(Len(x)) THEN <<>>
    ELSE PySlice(x, NTrain(Len(x), r), NTrain(Len(x), r) + NVal(Len(x), r))

TestPart(x, r) ==
    IF SmallGroup(Len(x)) THEN <<>>
    ELSE PySliceFrom(x, NTrain(Len(x), r) + NVal(Len(x), r))

-----------------------------------------------------------------------------
(* Lines 125-156: materialization *)

\* source_images_dir.glob(f"{base_name}.*"): the names that start with the
\* base name and a dot.
GlobMatches(base, f) == f.stem = base \/ <<base, f.stem>> \in DotPrefixes

\* the files that share a pattern <base>.* with another file
SharedMatches(images) ==
    LET bases == {f.stem : f \in images} \cup {p[1] : p \in DotPrefixes}
    IN  {g \in images : \E f \in images : \E b \in bases :
            f # g /\ GlobMatches(b, f) /\ GlobMatches(b, g)}

\* The orders in which a directory scan may list the files.  The first match
\* of a pattern depends on the order of the files that share a pattern only.
GlobOrders(images) ==
    {p \o AnyOrder(images \ SharedMatches(images)) : p \in Perms(SharedMatches(images))}

FirstMatch(base, images, order) ==
    LET hits == {i \in 1..Len(order) :
                    order[i] \in images /\ GlobMatches(base, order[i])}
    IN  order[CHOOSE i \in hits : \A k \in hits : i <= k]

\* a file_op that is shutil.move whatever copy_files says
ImageOpAlwaysMove(f, split, file, copy) ==
    IF file \in f.fail_images
    THEN [f EXCEPT !.err_images = @ \cup {[split |-> split, file |-> file]}]
    ELSE [f EXCEPT !.dest_images = @ \cup {[split |-> split, file |-> file]},
                   !.images = @ \ {file}]

\* shutil.copy2 / shutil.move of an image file (lines 143-147): an exception
\* is caught and printed
ImageOp(f, split, file, copy) ==
    IF file \in f.fail_images
    THEN [f EXCEPT !.err_images = @ \cup {[split |-> split, file |-> file]}]
    ELSE [f EXCEPT !.dest_images = @ \cup {[split |-> split, file |-> file]},
                   !.images = IF copy THEN @ ELSE @ \ {file}]

\* shutil.copy2 / shutil.move of a label file (lines 150-156)
LabelOp(f, split, stem, copy) ==
    IF stem \notin f.labels THEN f
    ELSE IF stem \in f.fail_labels
    THEN [f EXCEPT !.err_labels = @ \cup {[split |-> split, stem |-> stem]}]
    ELSE [f EXCEPT !.dest_labels = @ \cup {[split |-> split, stem |-> stem]},
                   !.labels = IF copy THEN @ ELSE @ \ {stem}]

\* lines 140-156 for one base_name
MaterializeOne(f, split, base, order, copy) ==
    IF \E file \in f.images : GlobMatches(base, file)
    THEN LabelOp(ImageOp(f, split, FirstMatch(base, f.images, order), copy),
                 split, base, copy)
    ELSE f

\* a loop that an error of file_op ends
RECURSIVE MaterializeListAbort(_, _, _, _, _)
MaterializeListAbort(f, split, list, order, copy) ==
    IF list = <<>> THEN f
    ELSE LET g == MaterializeOne(f, split, Head(list), order, copy)
         IN  IF g.err_images # f.err_images \/ g.err_labels # f.err_labels
             THEN g
             ELSE MaterializeListAbort(g, split, Tail(list), order, copy)

RECURSIVE MaterializeList(_, _, _, _, _)
MaterializeList(f, split, list, order, copy) ==
    IF list = <<>> THEN f
    ELSE MaterializeList(MaterializeOne(f, split, Head(list), order, copy),
                         split, Tail(list), order, copy)

\* lines 128-156 for one split
MaterializeSplitOp(f, split, list, order, copy) ==
    IF list = <<>> THEN f
    ELSE MaterializeList([f EXCEPT !.dirs = @ \cup {split}],
                         split, list, order, copy)

-----------------------------------------------------------------------------
(* Lines 161-188: _split_randomly.  Its lists are locals; it returns None. *)

SplitRandomlyLocals(image_files, r, s) ==
    LET sh == Shuffle(image_files, SeedRng(s))
        total_files == Len(image_files)
        train_count == PyInt(total_files * r[1], RatioDen)
        val_count   == PyInt(total_files * r[2], RatioDen)
    IN  [train_files |-> PySliceTo(sh.list, train_count),
         val_files   |-> PySlice(sh.list, train_count, train_count + val_count),
         test_files  |-> PySliceFrom(sh.list, train_count + val_count),
         rng         |-> sh.rng]

-----------------------------------------------------------------------------
(* tools/find_duplicates.py *)

\* The paths os.walk may list, in the order sorted() gives them.
PathNames == <<"d/a.jpg", "d/b.jpg", "d/s/a.jpg", "d/s/b.jpg", "d/t.jpg">>

Paths == {PathNames[i] : i \in 1..NumFiles}

PathRank(p) == CHOOSE i \in 1..Len(PathNames) : PathNames[i] = p

\* File contents: x and y have the same length and differ, z is longer.
Contents == {"x", "y", "z"}

\* os.path.getsize
FileSize(c) == IF c = "z" THEN 2 ELSE 1

\* the md5 digest of a content; equal for equal contents only
Md5(c) == <<"md5", c>>

\* sorted(paths)
RECURSIVE SortedPaths(_)
SortedPaths(S) ==
    IF S = {} THEN <<>>
    ELSE LET p == CHOOSE q \in S : \A r \in S : PathRank(q) <= PathRank(r)
         IN  <<p>> \o SortedPaths(S \ {p})

\* a defaultdict(list) filled in the order of seq: Seq of [key, paths]
RECURSIVE BucketBy(_, _, _)
BucketBy(seq, key, acc) ==
    IF seq = <<>> THEN acc
    ELSE LET p == Head(seq)
             hit == {i \in 1..Len(acc) : acc[i].key = key[p]}
         IN  BucketBy(Tail(seq), key,
                 IF hit = {}
                 THEN Append(acc, [key |-> key[p], paths |-> <<p>>])
                 ELSE [acc EXCEPT ![CHOOSE i \in hit : TRUE].paths = Append(@, p)])

\* the paths of the buckets with more than one path, bucket after bucket
RECURSIVE Crowded(_)
Crowded(buckets) ==
    IF buckets = <<>> THEN <<>>
    ELSE (IF Len(Head(buckets).paths) > 1 THEN Head(buckets).paths ELSE <<>>)
         \o Crowded(Tail(buckets))

\* lines 55-70
RECURSIVE DuplicateSets(_, _)
DuplicateSets(hashes_map, files) ==
    IF hashes_map = <<>> THEN <<>>
    ELSE LET paths == Head(hashes_map).paths
             sorted_paths == SortedPaths(Range(paths))
         IN  (IF Len(paths) > 1
              THEN <<[files_to_keep |-> <<sorted_paths[1]>>,
                      files_to_delete |-> Tail(sorted_paths),
                      md5 |-> Head(hashes_map).key,
                      size_bytes |-> FileSize(files[sorted_paths[1]])]>>
              ELSE <<>>)
             \o DuplicateSets(Tail(hashes_map), files)

\* find_duplicate_files: all_files is the list of os.walk, files the contents
find_duplicate_files(all_files, files) ==
    LET hashes_by_size == BucketBy(all_files, [p \in DOMAIN files |-> FileSize(files[p])], <<>>)
        potential_duplicates_paths == Crowded(hashes_by_size)
        hashes_map == BucketBy(potential_duplicates_paths,
                               [p \in DOMAIN files |-> Md5(files[p])], <<>>)
    IN  DuplicateSets(hashes_map, files)

\* What input() gives: a line, or EOFError / KeyboardInterrupt.
Answers == {"y", "Y", "n", "N", "yes", ""}

Inputs == {[eof |-> TRUE, text |-> ""]} \cup {[eof |-> FALSE, text |-> a] : a \in Answers}

\* str.lower
Lower(s) == CASE s = "Y" -> "y" [] s = "N" -> "n" [] OTHER -> s

\* a test that an answer other than n passes
ConfirmedUnlessNo(text) == Lower(text) # "n"

\* line 142, negated
Confirmed(text) == Lower(text) = "y"

\* lines 148-154: os.remove of every listed path; those in locked raise OSError
RECURSIVE RemoveListed(_, _, _)
RemoveListed(sets, files, locked) ==
    IF sets = <<>> THEN files
    ELSE LET gone == Range(Head(sets).files_to_delete) \ locked
         IN  RemoveListed(Tail(sets),
                          [p \in DOMAIN files \ gone |-> files[p]], locked)

\* the state of find_duplicates.py while the splitter runs
FdIdle == [pc |-> "idle"]

-----------------------------------------------------------------------------
(* The state machine *)

\* a printed message; file and line say which label line a warning is about
Msg(kind) == [kind |-> kind, file |-> "", line |-> 0]

BadLineMsg(s, k) == [kind |-> "warning_bad_line", file |-> s, line |-> k]

\* fail_images and fail_labels are the source files whose copy or move
\* raises; err_images and err_labels the errors lines 147 and 156 printed.
InitialFs(d) ==
    [images |-> d.images, labels |-> DOMAIN d.labels,
     dirs |-> {}, dest_images |-> {}, dest_labels |-> {},
     fail_images |-> d.fail_images, fail_labels |-> d.fail_labels,
     err_images |-> {}, err_labels |-> {}]

RunInit ==
    /\ pc = "start"
    /\ rng = 0
    /\ fs = InitialFs(dataset)
    /\ log = {}
    /\ image_to_classes = <<>>
    /\ all_image_stems = {}
    /\ groups = <<>>
    /\ gi = 0
    /\ train_files = <<>>
    /\ val_files = <<>>
    /\ test_files = <<>>
    /\ si = 0

Init ==
    /\ dataset \in Datasets
    /\ ratios \in RatioTriples
    /\ seed \in Seeds
    /\ copy_files \in BOOLEAN
    /\ prev = <<>>
    /\ fd = FdIdle
    /\ RunInit

inputs == <<dataset, ratios, seed, copy_files, prev, fd>>

\* lines 21-31
Start ==
    /\ pc = "start"
    /\ rng' = SeedRng(seed)
    /\ pc' = IF RatiosAccepted(ratios) THEN "dirs" ELSE "raised"
    /\ UNCHANGED <<inputs, fs, log, image_to_classes, all_image_stems, groups,
                   gi, train_files, val_files, test_files, si>>

\* lines 34-46
CheckDirs ==
    /\ pc = "dirs"
    /\ pc' = IF ~dataset.has_images THEN "returned"
             ELSE IF ~dataset.has_labels THEN "fallback"
             ELSE "labels"
    /\ log' = IF ~dataset.has_images THEN log \cup {Msg("error_no_images")}
              ELSE IF ~dataset.has_labels THEN log \cup {Msg("warning_no_labels")}
              ELSE log
    /\ UNCHANGED <<inputs, rng, fs, image_to_classes, all_image_stems, groups,
                   gi, train_files, val_files, test_files, si>>

\* line 47: return _split_randomly(...)
SplitRandomly ==
    /\ pc = "fallback"
    /\ \E order \in Perms({f \in fs.images : f.ext \in ImageSuffixes}) :
          rng' = SplitRandomlyLocals([i \in 1..Len(order) |-> order[i].stem],
                                     ratios, seed).rng
    /\ pc' = "returned"
    /\ UNCHANGED <<inputs, fs, log, image_to_classes, all_image_stems, groups,
                   gi, train_files, val_files, test_files, si>>

\* lines 51-60
ReadLabels ==
    /\ pc = "labels"
    /\ \E order \in Perms(fs.labels) :
          image_to_classes' = ReadLabelFiles(order, dataset.labels, <<>>)
    /\ log' = log \cup UNION {{BadLineMsg(s, k) : k \in BadLines(dataset.labels[s])} :
                               s \in fs.labels}
    /\ pc' = "images"
    /\ UNCHANGED <<inputs, rng, fs, all_image_stems, groups,
                   gi, train_files, val_files, test_files, si>>

\* lines 63-66.  The set is iterated in hash order; line 65 skips the stems
\* that are keys already, so only the order of the others is drawn.
FindImages ==
    /\ pc = "images"
    /\ all_image_stems' = AllImageStems(fs.images)
    /\ \E order \in Perms(AllImageStems(fs.images) \ DictKeys(image_to_classes)) :
          image_to_classes' = AddBackground(order, image_to_classes)
    /\ pc' = "group"
    /\ UNCHANGED <<inputs, rng, fs, log, groups,
                   gi, train_files, val_files, test_files, si>>

\* lines 69-79
Group ==
    /\ pc = "group"
    /\ groups' = GroupBy(image_to_classes, <<>>)
    /\ gi' = 0
    /\ pc' = "allocate"
    /\ UNCHANGED <<inputs, rng, fs, log, image_to_classes, all_image_stems,
                   train_files, val_files, test_files, si>>

\* lines 81-105, one iteration
AllocateGroup ==
    /\ pc = "allocate"
    /\ gi < Len(groups)
    /\ LET sh == Shuffle(groups[gi + 1].stems, rng)
       IN  /\ rng' = sh.rng
           /\ groups' = [groups EXCEPT ![gi + 1].stems = sh.list]
           /\ train_files' = train_files \o TrainPart(sh.list, ratios)
           /\ val_files' = val_files \o ValPart(sh.list, ratios)
           /\ test_files' = test_files \o TestPart(sh.list, ratios)
    /\ gi' = gi + 1
    /\ UNCHANGED <<inputs, pc, fs, log, image_to_classes, all_image_stems, si>>

\* lines 108-122
FinalShuffle ==
    /\ pc = "allocate"
    /\ gi = Len(groups)
    /\ LET s1 == Shuffle(train_files, rng)
           s2 == Shuffle(val_files, s1.rng)
           s3 == Shuffle(test_files, s2.rng)
       IN  /\ train_files' = s1.list
           /\ val_files' = s2.list
           /\ test_files' = s3.list
           /\ rng' = s3.rng
    /\ si' = 0
    /\ pc' = "materialize"
    /\ UNCHANGED <<inputs, fs, log, image_to_classes, all_image_stems, groups, gi>>

SplitList(i) ==
    CASE i = 1 -> train_files
      [] i = 2 -> val_files
      [] OTHER -> test_files

\* lines 127-156, one iteration
MaterializeSplit ==
    /\ pc = "materialize"
    /\ si < Len(SplitNames)
    /\ \E order \in GlobOrders(fs.images) :
          fs' = MaterializeSplitOp(fs, SplitNames[si + 1], SplitList(si + 1),
                                   order, copy_files)
    /\ si' = si + 1
    /\ UNCHANGED <<inputs, pc, rng, log, image_to_classes, all_image_stems,
                   groups, gi, train_files, val_files, test_files>>

\* line 158
Finish ==
    /\ pc = "materialize"
    /\ si = Len(SplitNames)
    /\ pc' = "done"
    /\ log' = log \cup {Msg("completed")}
    /\ UNCHANGED <<inputs, rng, fs, image_to_classes, all_image_stems,
                   groups, gi, train_files, val_files, test_files, si>>

Next ==
    \/ Start
    \/ CheckDirs
    \/ SplitRandomly
    \/ ReadLabels
    \/ FindImages
    \/ Group
    \/ AllocateGroup
    \/ FinalShuffle
    \/ MaterializeSplit
    \/ Finish

Spec == Init /\ [][Next]_vars

-----------------------------------------------------------------------------
(* find_duplicates.py: main *)

splitter == <<dataset, ratios, seed, copy_files, prev, pc, rng, fs, log,
              image_to_classes, all_image_stems, groups, gi,
              train_files, val_files, test_files, si>>

InitDup ==
    /\ dataset = NoImagesDir
    /\ ratios = <<768, 128, 128>>
    /\ seed = DefaultSeed
    /\ copy_files = TRUE
    /\ prev = <<>>
    /\ RunInit
    /\ \E files \in [Paths -> Contents] : \E locked \in SUBSET Paths :
       \E has_dir, delete, yes \in BOOLEAN : \E input \in Inputs :
          fd = [pc |-> "start", has_dir |-> has_dir, initial |-> files,
                files |-> files, locked |-> locked, delete |-> delete,
                yes |-> yes, input |-> input, duplicate_sets |-> <<>>,
                report |-> <<>>, log |-> {}]

\* lines 94-98
FdScan ==
    /\ fd.pc = "start"
    /\ IF ~fd.has_dir
       THEN fd' = [fd EXCEPT !.pc = "exit", !.log = @ \cup {"error_no_directory"}]
       ELSE \E all_files \in Perms(DOMAIN fd.files) :
               fd' = [fd EXCEPT !.pc = "found",
                                !.duplicate_sets = find_duplicate_files(all_files, fd.files)]
    /\ UNCHANGED splitter

\* lines 100-113
FdReport ==
    /\ fd.pc = "found"
    /\ fd' = IF fd.duplicate_sets = <<>>
             THEN [fd EXCEPT !.pc = "exit", !.log = @ \cup {"no_duplicates"}]
             ELSE [fd EXCEPT !.report = fd.duplicate_sets,
                             !.pc = IF fd.delete THEN "confirm" ELSE "exit"]
    /\ UNCHANGED splitter

\* lines 135-144
FdConfirm ==
    /\ fd.pc = "confirm"
    /\ fd' = IF fd.yes THEN [fd EXCEPT !.pc = "delete"]
             ELSE IF fd.input.eof
             THEN [fd EXCEPT !.pc = "exit", !.log = @ \cup {"cancelled_by_user"}]
             ELSE IF ~Confirmed(fd.input.text)
             THEN [fd EXCEPT !.pc = "exit", !.log = @ \cup {"cancelled"}]
             ELSE [fd EXCEPT !.pc = "delete"]
    /\ UNCHANGED splitter

\* lines 146-156
FdDelete ==
    /\ fd.pc = "delete"
    /\ fd' = [fd EXCEPT !.pc = "exit",
                        !.files = RemoveListed(fd.duplicate_sets, fd.files, fd.locked),
                        !.log = @ \cup {"deletion_complete"}]
    /\ UNCHANGED splitter

NextDup ==
    \/ FdScan
    \/ FdReport
    \/ FdConfirm
    \/ FdDelete

SpecDup == InitDup /\ [][NextDup]_vars

-----------------------------------------------------------------------------
(* A second run on the same input *)

\* the stem -> split mapping a run produces, and the order in which the
\* loop of line 81 visited the groups
Mapping ==
    [train |-> Range(train_files), val |-> Range(val_files),
     test |-> Range(test_files)]

VisitOrder == [i \in 1..gi |-> groups[i].key]

\* The function is called again with the same arguments on the same source
\* directory (the destination is a fresh one).
Rerun ==
    /\ pc = "done"
    /\ prev = <<>>
    /\ prev' = <<[mapping |-> Mapping, order |-> VisitOrder]>>
    /\ pc' = "start"
    /\ rng' = 0
    /\ fs' = InitialFs(dataset)
    /\ log' = {}
    /\ image_to_classes' = <<>>
    /\ all_image_stems' = {}
    /\ groups' = <<>>
    /\ gi' = 0
    /\ train_files' = <<>>
    /\ val_files' = <<>>
    /\ test_files' = <<>>
    /\ si' = 0
    /\ UNCHANGED <<dataset, ratios, seed, copy_files, fd>>

\* Two runs of one call: ratios without a negative component, files copied
\* (the source directory is the same for both runs).
InitRerun ==
    /\ dataset \in Datasets
    /\ ratios \in {r \in RatioTriples : \A i \in 1..Len(r) : r[i] >= 0}
    /\ seed \in Seeds
    /\ copy_files = TRUE
    /\ prev = <<>>
    /\ fd = FdIdle
    /\ RunInit

NextRerun == Next \/ Rerun

\* Runs over label files with malformed and empty lines, repeated class ids
\* and class ids in several orders, with the default ratios.
InitLabels ==
    /\ dataset \in LabelDatasets
    /\ ratios = <<768, 128, 128>>
    /\ seed \in Seeds
    /\ copy_files = TRUE
    /\ prev = <<>>
    /\ fd = FdIdle
    /\ RunInit

SpecLabels == InitLabels /\ [][Next]_vars

\* Runs over source files whose copy or move raises, with every ratio triple
\* and one more that fills the three splits.
InitFail ==
    /\ dataset \in FailDatasets
    /\ ratios \in RatioTriples \cup {<<512, 256, 256>>}
    /\ seed \in Seeds
    /\ copy_files \in BOOLEAN
    /\ prev = <<>>
    /\ fd = FdIdle
    /\ RunInit

SpecFail == InitFail /\ [][Next]_vars

\* Runs over image directories where a pattern <stem>.* matches several
\* files, with ratios that fill the three splits.
InitFiles ==
    /\ dataset \in FileDatasets
    /\ ratios \in {<<768, 128, 128>>, <<512, 256, 256>>}
    /\ seed \in Seeds
    /\ copy_files \in BOOLEAN
    /\ prev = <<>>
    /\ fd = FdIdle
    /\ RunInit

SpecFiles == InitFiles /\ [][Next]_vars

SpecRerun == InitRerun /\ [][NextRerun]_vars

-----------------------------------------------------------------------------
(* Properties *)

Count(s, list) == Cardinality({i \in 1..Len(list) : list[i] = s})

Assignments(s) == Count(s, train_files) + Count(s, val_files) + Count(s, test_files)

\* how many entries of list are stems of the group x
Placed(x, list) == Cardinality({i \in 1..Len(list) : list[i] \in Range(x)})

Allocating == pc \in {"allocate", "materialize", "done"}

AllAllocated == Allocating /\ gi = Len(groups)

\* the spec's conditions on a ratio triple
NonNegative(r) == \A i \in 1..Len(r) : r[i] >= 0

SumInTolerance(r) ==
    /\ TolLow * RatioDen < TolDen * SumSeq(r)
    /\ TolDen * SumSeq(r) < TolHigh * RatioDen

SpecRatios(r) == NonNegative(r) /\ SumInTolerance(r)

\* C1: after allocation every indexed stem is in exactly one of train_files,
\* val_files, test_files, and the three lists hold indexed stems only.
C1_PartitionComplete ==
    AllAllocated =>
        /\ \A s \in DictKeys(image_to_classes) : Assignments(s) = 1
        /\ Range(train_files) \cup Range(val_files) \cup Range(test_files)
              = DictKeys(image_to_classes)

\* C2: a second run with the same dataset, ratios and seed ends with the same
\* stem -> split mapping as the first.
C2_Deterministic ==
    (pc = "done" /\ prev # <<>>) => Mapping = prev[1].mapping

\* C3: with an images directory and no labels directory a run (with ratios
\* the spec allows) ends with the warning printed, every image stem in
\* exactly one split list, and every image file in the images directory of
\* a split.
C3_FallbackSplits ==
    (pc = "returned" /\ dataset.has_images /\ SpecRatios(ratios)) =>
        /\ Msg("warning_no_labels") \in log
        /\ \A s \in AllImageStems(dataset.images) : Assignments(s) = 1
        /\ \A f \in dataset.images : \E d \in fs.dest_images : d.file = f

\* C4 as stated: with ratios that are non-negative and sum to 1 within the
\* tolerance, every visited group of size n >= 3 with val_r > 0 and
\* int(n * val_r) = 0 has a stem in val_files.
C4_MinValOriginal ==
    (Allocating /\ SpecRatios(ratios)) =>
        \A i \in 1..gi :
            LET x == groups[i].stems
            IN  (Len(x) >= MinGroup /\ ratios[2] > 0 /\ NVal0(Len(x), ratios) = 0)
                    => Placed(x, val_files) >= 1

\* C4 amended: every visited group of size n >= 3 with val_r > 0,
\* int(n * val_r) = 0 and 0 <= int(n * train_r) < n has a stem in val_files.
C4_MinVal ==
    Allocating =>
        \A i \in 1..gi :
            LET x == groups[i].stems
            IN  (/\ Len(x) >= MinGroup
                 /\ ratios[2] > 0
                 /\ NVal0(Len(x), ratios) = 0
                 /\ 0 <= NTrain0(Len(x), ratios)
                 /\ NTrain0(Len(x), ratios) < Len(x))
                    => Placed(x, val_files) >= 1

C4_Witness ==
    /\ pc = "done"
    /\ \E i \in 1..gi :
          LET x == groups[i].stems
          IN  /\ Len(x) >= MinGroup
              /\ ratios[2] > 0
              /\ NVal0(Len(x), ratios) = 0
              /\ 0 <= NTrain0(Len(x), ratios)
              /\ NTrain0(Len(x), ratios) < Len(x)
              /\ Placed(x, val_files) = 1

\* C5: the stems of every visited group placed into train, val and test are
\* n_train, n_val and n_test many, these add up to the group's size, and
\* n_test is not negative.
C5_CountConservation ==
    Allocating =>
        \A i \in 1..gi :
            LET x == groups[i].stems
                n == Len(x)
            IN  /\ Placed(x, train_files) + Placed(x, val_files)
                      + Placed(x, test_files) = n
                /\ n >= MinGroup =>
                      /\ Placed(x, train_files) = NTrain(n, ratios)
                      /\ Placed(x, val_files) = NVal(n, ratios)
                      /\ Placed(x, test_files) = NTest(n, ratios)
                      /\ NTrain(n, ratios) + NVal(n, ratios) + NTest(n, ratios) = n
                      /\ NTest(n, ratios) >= 0

\* C6: every stem of a visited group of size 1 or 2 is in train_files and in
\* neither val_files nor test_files.
C6_SmallGroupsInTrain ==
    Allocating =>
        \A i \in 1..gi :
            LET x == groups[i].stems
            IN  Len(x) < MinGroup =>
                    \A s \in Range(x) :
                        /\ Count(s, train_files) = 1
                        /\ Count(s, val_files) = 0
                        /\ Count(s, test_files) = 0

C6_Witness ==
    /\ pc = "done"
    /\ ratios = <<768, 128, 128>>
    /\ \E i \in 1..gi : Len(groups[i].stems) = 2
                        /\ Range(groups[i].stems) \subseteq Range(train_files)
    /\ \E i \in 1..gi : Len(groups[i].stems) = 1
                        /\ Range(groups[i].stems) \subseteq Range(train_files)

PastEntry == pc \in {"labels", "images", "group", "allocate", "materialize", "done"}

\* C7: a run that reaches the label loop, grouping or allocation has ratios
\* that are all non-negative and sum to 1 within the tolerance.
C7_RatiosValidated ==
    PastEntry => (NonNegative(ratios) /\ SumInTolerance(ratios))

NothingTouched ==
    /\ fs = InitialFs(dataset)
    /\ image_to_classes = <<>>
    /\ groups = <<>>
    /\ train_files = <<>>
    /\ val_files = <<>>
    /\ test_files = <<>>

\* C8: a run whose ratio sum is outside the tolerance never leaves the entry
\* check, a run without a source images directory never gets past the
\* directory check, and in both the file system is as it was and nothing is
\* indexed, grouped or allocated.
C8_FatalLeavesFsUnchanged ==
    /\ ~SumInTolerance(ratios) => (pc \in {"start", "raised"} /\ NothingTouched)
    /\ ~dataset.has_images =>
          (pc \in {"start", "dirs", "raised", "returned"} /\ NothingTouched)

C8_Witness ==
    /\ pc = "raised"
    /\ ~SumInTolerance(ratios)
    /\ dataset.images # {}
    /\ NothingTouched

RECURSIVE Flatten(_)
Flatten(g) == IF g = <<>> THEN <<>> ELSE Head(g).stems \o Flatten(Tail(g))

\* C9: after grouping (with ratios the spec allows) every grouped stem is in
\* one group, once, and the grouped stems are the image stems of the images
\* directory.
C9_GroupsPartitionImages ==
    (Allocating /\ SpecRatios(ratios)) =>
        /\ \A s \in Range(Flatten(groups)) : Count(s, Flatten(groups)) = 1
        /\ Range(Flatten(groups)) = AllImageStems(dataset.images)

\* C10: a second run on the same input visits the groups in the same order
\* as the first.
C10_CanonicalGroupOrder ==
    (pc = "done" /\ prev # <<>>) => VisitOrder = prev[1].order

\* C13: with copy_files the source images and labels directories hold, at
\* every step of the run, the files they held at the start; a source file is
\* gone only in a run without copy_files.
C13_CopyLeavesSource ==
    /\ copy_files => (fs.images = dataset.images /\ fs.labels = DOMAIN dataset.labels)
    /\ (fs.images # dataset.images \/ fs.labels # DOMAIN dataset.labels) => ~copy_files

C13_Witness ==
    /\ pc = "done"
    /\ copy_files
    /\ fs.dest_images # {}
    /\ fs.dest_labels # {}
    /\ fs.images = dataset.images
    /\ fs.labels = DOMAIN dataset.labels

\* the stems at positions a..b of the list x
Segment(x, a, b) == {x[k] : k \in {j \in a..b : j >= 1 /\ j <= Len(x)}}

\* the counts as the claim states them: floor(n * train_r), and floor(n * val_r)
\* or 1 when the minimum-validation rule fires
ClaimNTrain(n, r) == (n * r[1]) \div RatioDen

ClaimNVal(n, r) ==
    IF r[2] > 0 /\ (n * r[2]) \div RatioDen = 0 /\ n > ClaimNTrain(n, r)
    THEN 1 ELSE (n * r[2]) \div RatioDen

\* C16: of every visited group of size n >= 3 with n - n_train - n_val >= 0,
\* train_files holds the first n_train stems of the shuffled group list,
\* val_files the next n_val and test_files all the others.
C16_SliceOrder ==
    Allocating =>
        \A i \in 1..gi :
            LET x  == groups[i].stems
                n  == Len(x)
                nt == ClaimNTrain(n, ratios)
                nv == ClaimNVal(n, ratios)
            IN  (n >= MinGroup /\ n - nt - nv >= 0) =>
                    /\ Range(train_files) \cap Range(x) = Segment(x, 1, nt)
                    /\ Range(val_files) \cap Range(x) = Segment(x, nt + 1, nt + nv)
                    /\ Range(test_files) \cap Range(x) = Segment(x, nt + nv + 1, n)
                    /\ Placed(x, train_files) = nt
                    /\ Placed(x, val_files) = nv
                    /\ Placed(x, test_files) = n - nt - nv


\* the label loop is over
LabelsRead == pc \in {"images", "group", "allocate", "materialize", "done"}

\* image_to_classes[s], the empty set for a stem that is no key
Indexed(s) ==
    IF s \in DictKeys(image_to_classes)
    THEN image_to_classes[CHOOSE i \in 1..Len(image_to_classes) :
                              image_to_classes[i].stem = s].classes
    ELSE {}

\* C11: after the label loop, in every label file of the directory, every
\* line whose first token is an integer has its class id indexed under the
\* file's stem, every other line (empty ones included) has a warning and
\* contributes no class id, whatever lines precede it and whatever label
\* files were read before it.
C11_BadLinesSkipped ==
    LabelsRead =>
        \A s \in DOMAIN dataset.labels :
            LET lines == dataset.labels[s]
            IN  /\ \A k \in 1..Len(lines) :
                       IF lines[k] # <<>> /\ IsIntLiteral(lines[k][1])
                       THEN /\ IntOf(lines[k][1]) \in Indexed(s)
                            /\ BadLineMsg(s, k) \notin log
                       ELSE BadLineMsg(s, k) \in log
                /\ \A c \in Indexed(s) :
                       \E k \in 1..Len(lines) :
                           /\ lines[k] # <<>> /\ IsIntLiteral(lines[k][1])
                           /\ IntOf(lines[k][1]) = c

\* a file with a malformed line before a valid one, and another label file,
\* have both been read
C11_Witness ==
    /\ LabelsRead
    /\ \E s, u \in DOMAIN dataset.labels :
           /\ s # u
           /\ dataset.labels[s] = KindLabel("bad_c0")
           /\ Indexed(s) = {0}
           /\ BadLineMsg(s, 1) \in log
           /\ dataset.labels[u] = KindLabel("c0_blank_c1")
           /\ Indexed(u) = {0, 1}

Grouped == pc \in {"allocate", "materialize", "done"}

\* the class ids of the label file of a stem, read off the file: the integer
\* first tokens of its lines; the empty set without a label file
FileClasses(s) ==
    IF s \in DOMAIN dataset.labels
    THEN {IntOf(dataset.labels[s][k][1]) :
             k \in {j \in 1..Len(dataset.labels[s]) :
                        /\ dataset.labels[s][j] # <<>>
                        /\ IsIntLiteral(dataset.labels[s][j][1])}}
    ELSE {}

GroupsOf(s) == {i \in 1..Len(groups) : s \in Range(groups[i].stems)}

\* C15: after grouping, two indexed stems are in the same group exactly when
\* the class ids of their label files are equal as sets, and every image
\* without a label file, or with a label file without a valid class id, is
\* in the one group of the empty composition.
C15_CompositionGroups ==
    Grouped =>
        /\ \A s, u \in DictKeys(image_to_classes) :
               (GroupsOf(s) \cap GroupsOf(u) # {}) <=> (FileClasses(s) = FileClasses(u))
        /\ \A s \in DictKeys(image_to_classes) : Cardinality(GroupsOf(s)) = 1
        /\ Cardinality({i \in 1..Len(groups) : groups[i].key = {}}) <= 1
        /\ \A f \in dataset.images :
               FileClasses(f.stem) = {} =>
                   \E i \in GroupsOf(f.stem) : groups[i].key = {}

\* label files with the class ids in different orders and repeated share a
\* group; an image without label file and one with malformed lines only
\* share the background group
C15_Witness ==
    /\ Grouped
    /\ \E s, u \in DOMAIN dataset.labels :
           /\ dataset.labels[s] = KindLabel("c0_blank_c1")
           /\ dataset.labels[u] = KindLabel("c1_c0_c0")
           /\ GroupsOf(s) = GroupsOf(u) /\ GroupsOf(s) # {}
    /\ \E f, g \in dataset.images :
           /\ f.stem \notin DOMAIN dataset.labels
           /\ g.stem \in DOMAIN dataset.labels
           /\ dataset.labels[g.stem] = KindLabel("blank")
           /\ GroupsOf(f.stem) = GroupsOf(g.stem) /\ GroupsOf(f.stem) # {}

SplitFiles(j) == <<train_files, val_files, test_files>>[j]

\* the file is in the split, or its failure was reported for the split
ImageAttempted(j, file) ==
    \/ [split |-> SplitNames[j], file |-> file] \in fs.dest_images
    \/ /\ file \in dataset.fail_images
       /\ [split |-> SplitNames[j], file |-> file] \in fs.err_images

LabelAttempted(j, s) ==
    \/ [split |-> SplitNames[j], stem |-> s] \in fs.dest_labels
    \/ /\ s \in dataset.fail_labels
       /\ [split |-> SplitNames[j], stem |-> s] \in fs.err_labels

\* C12: once a split has been materialized, every stem of its list that has
\* an image in the source and is in no other list has had its image copied
\* or moved into the split, or the failure reported for that file, and
\* likewise its label file if it has one, whichever files failed before it;
\* and the run reaches its end after the three splits.
C12_FailuresIsolated ==
    /\ pc \in {"materialize", "done"} =>
           \A j \in 1..si : \A k \in 1..Len(SplitFiles(j)) :
               LET s == SplitFiles(j)[k]
               IN  \A file \in dataset.images :
                       (file.stem = s /\ Assignments(s) = 1) =>
                           /\ ImageAttempted(j, file)
                           /\ s \in DOMAIN dataset.labels => LabelAttempted(j, s)
    /\ pc = "done" => (si = Len(SplitNames) /\ Msg("completed") \in log)

\* the run has ended, an image and a label failed, and a stem that comes
\* after a failed one in its list, and a stem of a later split, were
\* materialized
C12_Witness ==
    /\ pc = "done"
    /\ fs.err_images # {} /\ fs.err_labels # {}
    /\ \E k \in 1..Len(train_files) : \E m \in 1..Len(train_files) :
           /\ k < m
           /\ \E e \in fs.err_images : e.split = "train" /\ e.file.stem = train_files[k]
           /\ \E d \in fs.dest_images : d.split = "train" /\ d.file.stem = train_files[m]
    /\ \E d \in fs.dest_images : d.split = "test"

\* the splits whose images directory holds the file
SplitsOfImage(file) ==
    {j \in 1..Len(SplitNames) : [split |-> SplitNames[j], file |-> file] \in fs.dest_images}

SplitsOfLabel(s) ==
    {j \in 1..Len(SplitNames) : [split |-> SplitNames[j], stem |-> s] \in fs.dest_labels}

\* C17: at the end of a stratified run with valid ratios and no failing
\* file operation, every image file of the source is in the images directory
\* of exactly one split, the one whose list holds its stem, and its label
\* file, if it has one, is in the labels directory of that split.
C17_MaterializedAsAssigned ==
    (/\ pc = "done" /\ SpecRatios(ratios)
     /\ dataset.fail_images = {} /\ dataset.fail_labels = {}) =>
        \A file \in dataset.images :
            /\ Cardinality(SplitsOfImage(file)) = 1
            /\ \A j \in SplitsOfImage(file) :
                   /\ file.stem \in Range(SplitFiles(j))
                   /\ file.stem \in DOMAIN dataset.labels => j \in SplitsOfLabel(file.stem)

\* the files the run has removed
FdRemoved == DOMAIN fd.initial \ DOMAIN fd.files

\* the paths the report lists to delete, and to keep
ReportedToDelete == UNION {Range(fd.report[i].files_to_delete) : i \in 1..Len(fd.report)}

ReportedToKeep == UNION {Range(fd.report[i].files_to_keep) : i \in 1..Len(fd.report)}

\* C14, as stated: a file is removed only if the report lists it in
\* files_to_delete, --delete was given, and --yes was given or the answer to
\* the confirmation was y; no path of files_to_keep is removed.
C14_DeletionGateOriginal ==
    /\ \A p \in FdRemoved :
           /\ p \in ReportedToDelete
           /\ fd.delete
           /\ fd.yes \/ (~fd.input.eof /\ fd.input.text = "y")
    /\ ReportedToKeep \cap FdRemoved = {}

\* C14, amended: a file is removed only if the report lists it in
\* files_to_delete, --delete was given, and --yes was given or the answer to
\* the confirmation was y or Y; no path of files_to_keep is removed.
C14_DeletionGate ==
    /\ \A p \in FdRemoved :
           /\ p \in ReportedToDelete
           /\ fd.delete
           /\ fd.yes \/ (~fd.input.eof /\ fd.input.text \in {"y", "Y"})
    /\ ReportedToKeep \cap FdRemoved = {}

\* a confirmed run without --yes has removed a listed file and kept the
\* first path of its set
C14_Witness ==
    /\ fd.pc = "exit" /\ fd.delete /\ ~fd.yes /\ fd.input.text = "y"
    /\ FdRemoved # {}
    /\ ReportedToKeep # {} /\ ReportedToKeep \subseteq DOMAIN fd.files
=============================================================================
